---- MODULE Spec2Model ----
(***************************************************************************)
(* A model of .github/scripts/translate_qmd.py: the batch driver main(),   *)
(* the per-file pipeline QMDTranslator.translate_qmd_file, the proofreader *)
(* check_spelling, the language resolver, the code-block extractor and     *)
(* restorer, and the front-matter splitter.                                *)
(*                                                                         *)
(* Texts are sequences of one-character strings.  Files are abstracted to  *)
(* the kind of content they hold.                                          *)
(***************************************************************************)
EXTENDS Integers, Sequences, FiniteSets, TLC

\* ------------------------------------------------------------------ bounds
\* Longest list of input paths given on the command line.
MaxFiles == 2
\* Longest body text given to the language resolver.
MaxBody == 5
\* Most pieces a body given to the code-block extractor is made of.
MaxCodeSegs == 5
\* Most pieces a document given to the front-matter splitter is made of.
MaxYamlSegs == 7
\* Most lines of a metadata block given to the title translation.
MaxMetaLines == 3
\* Longest answer of the remote service to a title request.
MaxTitle == 3

\* ------------------------------------------------------------- text helpers
None == "None"

\* str.startswith
StartsWith(s, p) ==
    /\ Len(s) >= Len(p)
    /\ SubSeq(s, 1, Len(p)) = p

\* str.endswith
EndsWith(s, p) ==
    /\ Len(s) >= Len(p)
    /\ SubSeq(s, Len(s) - Len(p) + 1, Len(s)) = p

\* str.rfind of a single character, 1-based; 0 when absent
RFind(s, ch) ==
    LET hits == {i \in 1..Len(s) : s[i] = ch}
    IN IF hits = {} THEN 0 ELSE CHOOSE i \in hits : \A j \in hits : j <= i

DotQmd == <<".", "q", "m", "d">>
DotZh == <<".", "z", "h">>
DotZhQmd == DotZh \o DotQmd

\* pathlib's PurePath.stem of a final path component: the name without its
\* last suffix; a leading or a trailing dot starts no suffix.
PathStem(name) ==
    LET i == RFind(name, ".")
    IN IF 1 < i /\ i < Len(name) THEN SubSeq(name, 1, i - 1) ELSE name

\* get_translation_pair, on the final path component (the parent directory
\* is kept by the caller).
get_translation_pair(name) ==
    LET stem == PathStem(name)
    IN IF EndsWith(stem, DotZh)
       THEN SubSeq(stem, 1, Len(stem) - 3) \o DotQmd
       ELSE stem \o DotZhQmd

\* ------------------------------------------------------------ the file system
\* What a path holds:
\*   absent      no file
\*   bad         a file that cannot be read as UTF-8 text (open/read raises)
\*   plain       a document without a title field
\*   titled      a document whose metadata block has a title field
\*   truncated   what open(path, 'w') followed by a failed write leaves
\*   fullPlain   the complete reassembled translation of a plain document
\*   fullTitled  the complete reassembled translation of a titled document
Contents == {"absent", "bad", "plain", "titled", "truncated", "fullPlain", "fullTitled"}

Readable(c) == c \in {"plain", "titled", "truncated", "fullPlain", "fullTitled"}

HasTitle(c) == c \in {"titled", "fullTitled"}

\* final_content of translate_qmd_file for an input holding c
FullOf(c) == IF HasTitle(c) THEN "fullTitled" ELSE "fullPlain"

NameEn == <<"a">> \o DotQmd
NameZh == <<"a">> \o DotZhQmd
InputNames == {NameEn, NameZh}

\* The directory of the inputs and the directory --output-dir names.
Dirs == {"in", "out"}
AllNames == InputNames \cup {get_translation_pair(n) : n \in InputNames}
Paths == Dirs \X AllNames

\* ------------------------------------------------------ language resolver
\* LANGUAGE_DETECTION_THRESHOLD = 0.3, as the fraction 3/10: for character
\* counts c and e, Python's c > e * 0.3 agrees with 10 * c > 3 * e.
ThresholdNum == 3
ThresholdDen == 10

\* The characters of a body that matter to detect_language: a CJK
\* ideograph (U+4E00..U+9FFF), a Latin letter, and anything else.
Cjk == "zh_char"
Latin == "a"
Other == " "
BodyChars == {Cjk, Latin, Other}

\* The characters of file names: ASCII letters, a digit and the dot.
Letters == {"a", "b", "d", "e", "f", "g", "h", "m", "n", "q", "r", "z"}

\* str.isalpha
IsAlpha(s) == Len(s) > 0 /\ \A i \in 1..Len(s) : s[i] \in Letters

\* len(re.findall(cls, content)) for a one-character class
RECURSIVE CountIn(_, _)
CountIn(content, cls) ==
    IF content = <<>> THEN 0
    ELSE (IF Head(content) \in cls THEN 1 ELSE 0) + CountIn(Tail(content), cls)

\* A detect_language that forgets the threshold.
detect_language_noThreshold(content) ==
    IF CountIn(content, {Cjk}) > CountIn(content, {Latin}) THEN "zh" ELSE "en"

\* QMDTranslator.detect_language
detect_language(content) ==
    LET chinese_chars == CountIn(content, {Cjk})
        english_chars == CountIn(content, {Latin})
    IN IF chinese_chars * ThresholdDen > english_chars * ThresholdNum
       THEN "zh" ELSE "en"

\* name.split('.')[-1]
LastPart(s) == SubSeq(s, RFind(s, ".") + 1, Len(s))

\* translate_qmd_file, lines 255-273 for the input and 276-288 for the
\* output: the language a file name states, None when it states none.
FilenameLang(filename) ==
    IF EndsWith(filename, DotZhQmd) THEN "zh"
    ELSE IF EndsWith(filename, DotQmd)
    THEN LET name_without_qmd == SubSeq(filename, 1, Len(filename) - 4)
         IN IF RFind(name_without_qmd, ".") > 0
            THEN LET possible_lang == LastPart(name_without_qmd)
                 IN IF /\ Len(possible_lang) \in {2, 3}
                       /\ IsAlpha(possible_lang)
                       /\ possible_lang # <<"z", "h">>
                    THEN None
                    ELSE "en"
            ELSE "en"
    ELSE None

\* translate_qmd_file, lines 245-314: the source and the target language,
\* and whether the filename/content WARNING was printed.
ResolveLanguages(input_filename, output_filename, body, target_lang) ==
    LET filename_source_lang == FilenameLang(input_filename)
        filename_target_lang == FilenameLang(output_filename)
        content_detected_lang == detect_language(body)
        source_lang == IF filename_source_lang # None
                       THEN filename_source_lang
                       ELSE content_detected_lang
        target == IF target_lang # None THEN target_lang
                  ELSE IF filename_target_lang # None THEN filename_target_lang
                  ELSE IF source_lang = "en" THEN "zh" ELSE "en"
    IN [done |-> TRUE,
        source |-> source_lang,
        target |-> target,
        warning |-> (filename_source_lang # None
                       /\ content_detected_lang # filename_source_lang)]

\* File names given to the resolver: a.qmd, a.zh.qmd, a.fr.qmd, a.eng.qmd,
\* a.b.qmd, a.f1.qmd, a.zh.fr.qmd, a.germ.qmd, .zh.qmd
LangNames ==
    {<<"a">> \o DotQmd,
     <<"a">> \o DotZhQmd,
     <<"a", ".", "f", "r">> \o DotQmd,
     <<"a", ".", "e", "n", "g">> \o DotQmd,
     <<"a", ".", "b">> \o DotQmd,
     <<"a", ".", "f", "1">> \o DotQmd,
     <<"a">> \o DotZh \o <<".", "f", "r">> \o DotQmd,
     <<"a", ".", "g", "e", "r", "m">> \o DotQmd,
     DotZhQmd}

\* All texts over an alphabet, up to a length
TextsUpTo(alphabet, n) == UNION {[1..k -> alphabet] : k \in 0..n}

VARIABLES
    lang_in,            \* the resolver's input: file name, body, --target-lang
    lang_out            \* what translate_qmd_file resolved for it

langVars == <<lang_in, lang_out>>

Unresolved == [done |-> FALSE, source |-> "en", target |-> "zh", warning |-> FALSE]

LangIdle ==
    /\ lang_in = [name |-> NameEn, body |-> <<>>, target_lang |-> None]
    /\ lang_out = Unresolved

LangInit ==
    /\ lang_in \in [name : LangNames,
                    body : TextsUpTo(BodyChars, MaxBody),
                    target_lang : {None, "en", "zh"}]
    /\ lang_out = Unresolved

\* translate_qmd_file resolves the languages of a file main gave it: the
\* output name is the input's translation pair.
Resolve ==
    /\ ~lang_out.done
    /\ lang_out' = ResolveLanguages(lang_in.name, get_translation_pair(lang_in.name),
                                    lang_in.body, lang_in.target_lang)
    /\ UNCHANGED lang_in

\* ------------------------------------------- code-block extractor/restorer
\* The backtick character
Backtick == "backtick"
NL == "\n"

Digit == <<"0", "1", "2", "3", "4", "5", "6", "7", "8", "9">>

\* str(i) for i >= 0
RECURSIVE Str(_)
Str(i) == IF i < 10 THEN <<Digit[i + 1]>>
          ELSE Str(i \div 10) \o <<Digit[(i % 10) + 1]>>

\* placeholder_template.format(i): the text <<<CODE_BLOCK_i>>>
Placeholder(i) ==
    <<"<", "<", "<", "C", "O", "D", "E", "_", "B", "L", "O", "C", "K", "_">>
        \o Str(i) \o <<">", ">", ">">>

\* The index after the longest run of ch that starts at p
RECURSIVE RunEnd(_, _, _)
RunEnd(s, p, ch) ==
    IF p <= Len(s) /\ s[p] = ch THEN RunEnd(s, p + 1, ch) ELSE p

\* Smallest member of a nonempty set of integers
Min(S) == CHOOSE x \in S : \A y \in S : x <= y
Max(S) == CHOOSE x \in S : \A y \in S : y <= x

\* Where a match of code_pattern, ```+[^\n]*\n.*?\n```+ with DOTALL, that
\* starts at p ends (the index after it); 0 when none starts at p.  The
\* opening fence runs to the first line end; the lazy .*? stops at the
\* first later line end followed by three backticks; the closing fence
\* takes every backtick there.
CodeMatchEnd(s, p) ==
    IF ~(p + 2 <= Len(s) /\ s[p] = Backtick /\ s[p + 1] = Backtick
                         /\ s[p + 2] = Backtick)
    THEN 0
    ELSE LET ends == {k \in (p + 3)..Len(s) : s[k] = NL}
         IN IF ends = {} THEN 0
            ELSE LET closes == {j \in (Min(ends) + 1)..(Len(s) - 3) :
                                  /\ s[j] = NL
                                  /\ s[j + 1] = Backtick
                                  /\ s[j + 2] = Backtick
                                  /\ s[j + 3] = Backtick}
                 IN IF closes = {} THEN 0
                    ELSE RunEnd(s, Min(closes) + 1, Backtick)

\* re.sub(code_pattern, replace_code, content): left to right from p, each
\* match appended to code_blocks and replaced by the placeholder numbered
\* by its position in the list.
RECURSIVE SubCode(_, _, _, _)
SubCode(s, p, out, blocks) ==
    IF p > Len(s) THEN [processed |-> out, blocks |-> blocks]
    ELSE LET e == CodeMatchEnd(s, p)
         IN IF e = 0
            THEN SubCode(s, p + 1, Append(out, s[p]), blocks)
            ELSE SubCode(s, e, out \o Placeholder(Len(blocks)),
                         Append(blocks, SubSeq(s, p, e - 1)))

\* QMDTranslator.extract_code_blocks
extract_code_blocks(content) == SubCode(content, 1, <<>>, <<>>)

\* str.replace(old, new): every occurrence of old, left to right, none
\* overlapping
RECURSIVE Replace(_, _, _)
Replace(s, old, new) ==
    IF Len(s) < Len(old) THEN s
    ELSE IF SubSeq(s, 1, Len(old)) = old
    THEN new \o Replace(SubSeq(s, Len(old) + 1, Len(s)), old, new)
    ELSE <<Head(s)>> \o Replace(Tail(s), old, new)

\* The loop of restore_code_blocks from block number i (0-based) on
RECURSIVE RestoreFrom(_, _, _)
RestoreFrom(content, blocks, i) ==
    IF i >= Len(blocks) THEN content
    ELSE RestoreFrom(Replace(content, Placeholder(i), blocks[i + 1]),
                     blocks, i + 1)

\* QMDTranslator.restore_code_blocks
restore_code_blocks(content, blocks) == RestoreFrom(content, blocks, 0)

\* Concatenation of a sequence of texts
RECURSIVE Flatten(_)
Flatten(ss) == IF ss = <<>> THEN <<>> ELSE Head(ss) \o Flatten(Tail(ss))

\* All texts made of up to n pieces
MadeOf(pieces, n) == {Flatten(ss) : ss \in UNION {[1..k -> pieces] : k \in 0..n}}

\* The pieces of the bodies given to the extractor: a fence of three
\* backticks, a line end, a letter, one backtick, and the text of the
\* first two placeholders.
CodePieces ==
    {<<Backtick, Backtick, Backtick>>, <<NL>>, <<"x">>, <<Backtick>>,
     Placeholder(0), Placeholder(1)}

VARIABLES
    code_in,            \* the body given to extract_code_blocks
    code_pc,            \* "body", "extracted" or "restored"
    code_text,          \* the content with placeholders
    code_blocks,        \* the list of extracted code blocks
    code_out            \* what restore_code_blocks returned

codeVars == <<code_in, code_pc, code_text, code_blocks, code_out>>

CodeIdle ==
    /\ code_in = <<>>
    /\ code_pc = "restored"
    /\ code_text = <<>>
    /\ code_blocks = <<>>
    /\ code_out = <<>>

CodeInit ==
    /\ code_in \in MadeOf(CodePieces, MaxCodeSegs)
    /\ code_pc = "body"
    /\ code_text = <<>>
    /\ code_blocks = <<>>
    /\ code_out = <<>>

\* translate_qmd_file, line 322
ExtractCodeBlocks ==
    /\ code_pc = "body"
    /\ LET r == extract_code_blocks(code_in)
       IN /\ code_text' = r.processed
          /\ code_blocks' = r.blocks
    /\ code_pc' = "extracted"
    /\ UNCHANGED <<code_in, code_out>>

\* translate_qmd_file, line 328, on the extractor's unaltered result
RestoreCodeBlocks ==
    /\ code_pc = "extracted"
    /\ code_out' = restore_code_blocks(code_text, code_blocks)
    /\ code_pc' = "restored"
    /\ UNCHANGED <<code_in, code_text, code_blocks>>

\* ---------------------------------------------------- front-matter splitter
Dash == "-"
Dashes == <<Dash, Dash, Dash>>

\* \s, among the characters of the documents
IsSpace(c) == c \in {" ", NL}

\* The index after the longest run of white space that starts at p
RECURSIVE SpaceRunEnd(_, _)
SpaceRunEnd(s, p) ==
    IF p <= Len(s) /\ IsSpace(s[p]) THEN SpaceRunEnd(s, p + 1) ELSE p

\* Where the line end of `\s*\n` can be when the \s* starts at p: the line
\* ends of the run of white space there
LineEnds(s, p) == {k \in p..(SpaceRunEnd(s, p) - 1) : s[k] = NL}

\* `\n---\s*\n` matches at j
ClosingAt(s, j) ==
    /\ j + 3 <= Len(s)
    /\ s[j] = NL
    /\ SubSeq(s, j + 1, j + 3) = Dashes
    /\ LineEnds(s, j + 4) # {}

\* re.match(r'^---\s*\n(.*?)\n---\s*\n', content, re.DOTALL): the greedy
\* first \s* takes the last line end of its white space after which a
\* closing delimiter follows, the lazy group ends at the first such
\* delimiter, and the greedy last \s* takes the last line end of its
\* white space.  group1 is the text of the group, end the index after the
\* match.
YamlMatch(s) ==
    IF ~StartsWith(s, Dashes) THEN [found |-> FALSE, group1 |-> <<>>, end |-> 1]
    ELSE LET closes(a) == {j \in (a + 1)..Len(s) : ClosingAt(s, j)}
             opens == {a \in LineEnds(s, 4) : closes(a) # {}}
         IN IF opens = {} THEN [found |-> FALSE, group1 |-> <<>>, end |-> 1]
            ELSE LET a == Max(opens)
                     j == Min(closes(a))
                 IN [found |-> TRUE,
                     group1 |-> SubSeq(s, a + 1, j - 1),
                     end |-> Max(LineEnds(s, j + 4)) + 1]

\* QMDTranslator.extract_yaml_frontmatter
extract_yaml_frontmatter(content) ==
    LET match == YamlMatch(content)
    IN IF match.found
       THEN [frontmatter |-> Dashes \o <<NL>> \o match.group1 \o <<NL>> \o Dashes \o <<NL>>,
             body |-> SubSeq(content, match.end, Len(content))]
       ELSE [frontmatter |-> <<>>, body |-> content]

\* The pieces of the documents given to the splitter: a delimiter, a line
\* end, a space and a letter.
YamlPieces == {Dashes, <<NL>>, <<" ">>, <<"t">>}

VARIABLES
    yaml_in,            \* the document given to extract_yaml_frontmatter
    yaml_done,          \* whether it has been split
    yaml_part,          \* the front matter returned
    body_part           \* the body returned

yamlVars == <<yaml_in, yaml_done, yaml_part, body_part>>

YamlIdle ==
    /\ yaml_in = <<>>
    /\ yaml_done = TRUE
    /\ yaml_part = <<>>
    /\ body_part = <<>>

YamlInit ==
    /\ yaml_in \in MadeOf(YamlPieces, MaxYamlSegs)
    /\ yaml_done = FALSE
    /\ yaml_part = <<>>
    /\ body_part = <<>>

\* translate_qmd_file, line 241
ExtractFrontmatter ==
    /\ ~yaml_done
    /\ LET r == extract_yaml_frontmatter(yaml_in)
       IN /\ yaml_part' = r.frontmatter
          /\ body_part' = r.body
    /\ yaml_done' = TRUE
    /\ UNCHANGED yaml_in

\* ------------------------------------------------- front-matter translation
Quote == "\""
Apostrophe == "'"
Backslash == "\\"
Hash == "#"

\* str.lstrip(chars) and str.rstrip(chars)
RECURSIVE LStripSet(_, _)
LStripSet(s, chars) ==
    IF s # <<>> /\ Head(s) \in chars THEN LStripSet(Tail(s), chars) ELSE s

RECURSIVE RStripSet(_, _)
RStripSet(s, chars) ==
    IF s # <<>> /\ s[Len(s)] \in chars
    THEN RStripSet(SubSeq(s, 1, Len(s) - 1), chars) ELSE s

\* str.strip(chars)
StripSet(s, chars) == RStripSet(LStripSet(s, chars), chars)

\* str.strip(): white space off both ends
Strip(s) == StripSet(s, {" ", NL})

\* re.sub(r'^#+\s*', '', s): a leading run of # and the white space after
\* it are dropped
StripHeading(s) ==
    IF s # <<>> /\ Head(s) = Hash
    THEN LStripSet(LStripSet(s, {Hash}), {" ", NL})
    ELSE s

TitleColon == <<"t", "i", "t", "l", "e", ":">>

\* The index of the line end that ends the line holding index p, Len + 1
\* for the last line
LineEnd(s, p) ==
    LET ends == {k \in p..Len(s) : s[k] = NL}
    IN IF ends = {} THEN Len(s) + 1 ELSE Min(ends)

\* Where a match of ^title:\s*(.+)$ under re.MULTILINE that starts at p
\* has its group: the greedy \s* (which takes line ends too) gives back
\* until a character other than a line end follows, and the group runs to
\* the end of that line.  0 when no match starts at p.
TitleGroupAt(s, p) ==
    IF ~(/\ p = 1 \/ s[p - 1] = NL
         /\ p + 5 <= Len(s)
         /\ SubSeq(s, p, p + 5) = TitleColon)
    THEN 0
    ELSE LET starts == {g \in (p + 6)..SpaceRunEnd(s, p + 6) :
                          g <= Len(s) /\ s[g] # NL}
         IN IF starts = {} THEN 0 ELSE Max(starts)

\* re.search(r'^title:\s*(.+)$', yaml_content, re.MULTILINE): the leftmost
\* match, from start to the index after it, and where its group starts
TitleSearch(s) ==
    LET at == {p \in 1..Len(s) : TitleGroupAt(s, p) # 0}
    IN IF at = {} THEN [found |-> FALSE, start |-> 0, group |-> 0, end |-> 0]
       ELSE LET p == Min(at)
                g == TitleGroupAt(s, p)
            IN [found |-> TRUE, start |-> p, group |-> g,
                end |-> LineEnd(s, g)]

\* yaml_special_chars
YamlSpecialChars == {":", "#", "[", "]", "{", "}", "|", ">", "&", "*", "!", "@",
                     Backtick}

\* translate_yaml_fields, lines 203-208
needs_quoting(translated_title) ==
    \/ \E i \in 1..Len(translated_title) : translated_title[i] \in YamlSpecialChars
    \/ StartsWith(translated_title, <<Quote>>)
    \/ StartsWith(translated_title, <<Apostrophe>>)
    \/ translated_title # Strip(translated_title)

\* translate_yaml_fields, lines 209-212: the title as it goes into the line
QuoteTitle(translated_title) ==
    IF /\ needs_quoting(translated_title)
       /\ ~(StartsWith(translated_title, <<Quote>>)
              /\ EndsWith(translated_title, <<Quote>>))
    THEN <<Quote>> \o Replace(translated_title, <<Quote>>, <<Backslash, Quote>>)
                   \o <<Quote>>
    ELSE translated_title

\* The replacement text of re.sub as a template: \\ stands for one
\* backslash, and a backslash before a character that is no letter, digit
\* or backslash stays.  (The answers modelled hold no backslash, so no
\* other escape occurs.)
RECURSIVE ExpandTemplate(_)
ExpandTemplate(t) ==
    IF t = <<>> THEN <<>>
    ELSE IF Len(t) >= 2 /\ t[1] = Backslash /\ t[2] = Backslash
    THEN <<Backslash>> \o ExpandTemplate(SubSeq(t, 3, Len(t)))
    ELSE <<Head(t)>> \o ExpandTemplate(Tail(t))

\* translate_text, line 174: the answer with the white space off its ends
translate_text(reply) == Strip(reply.text)

\* QMDTranslator.translate_yaml_fields on yaml_content, the remote service
\* answering reply: the content it returns, the texts it asked the service
\* to translate, the translated title before quoting, and whether the
\* request raised.
translate_yaml_fields(content, reply) ==
    LET title_match == TitleSearch(content)
        group1 == SubSeq(content, title_match.group, title_match.end - 1)
        title == Strip(StripHeading(StripSet(Strip(group1), {Quote, Apostrophe})))
        translated_title == Strip(StripHeading(translate_text(reply)))
        line == ExpandTemplate(TitleColon \o <<" ">> \o QuoteTitle(translated_title))
    IN IF ~title_match.found
       THEN [content |-> content, requests |-> <<>>, matched |-> FALSE,
             value |-> <<>>, raised |-> FALSE]
       ELSE IF ~reply.ok
       THEN [content |-> content, requests |-> <<title>>, matched |-> TRUE,
             value |-> <<>>, raised |-> TRUE]
       ELSE [content |-> SubSeq(content, 1, title_match.start - 1) \o line
                           \o SubSeq(content, title_match.end, Len(content)),
             requests |-> <<title>>, matched |-> TRUE,
             value |-> translated_title, raised |-> FALSE]

\* The lines of a text
RECURSIVE SplitLines(_)
SplitLines(s) ==
    LET e == LineEnd(s, 1)
    IN IF e > Len(s) THEN <<s>>
       ELSE <<SubSeq(s, 1, e - 1)>> \o SplitLines(SubSeq(s, e + 1, Len(s)))

\* "\n".join(lines)
RECURSIVE JoinLines(_)
JoinLines(lines) ==
    IF lines = <<>> THEN <<>>
    ELSE IF Len(lines) = 1 THEN lines[1]
    ELSE lines[1] \o <<NL>> \o JoinLines(Tail(lines))

\* The metadata lines of the documents given to the title translation:
\* "title: x", "title:" (an empty value), "a: b", "- a" and "b-".
MetaLines ==
    {TitleColon \o <<" ", "x">>,
     TitleColon,
     <<"a", ":", " ", "b">>,
     <<"-", " ", "a">>,
     <<"b", "-">>}

\* The characters of the remote service's answers to a title request
TitleChars == {"a", ":", Quote, " ", Hash}

\* The answers: a text, or an error
TitleReplies ==
    {[ok |-> TRUE, text |-> t] : t \in TextsUpTo(TitleChars, MaxTitle)}
        \cup {[ok |-> FALSE, text |-> <<>>]}

VARIABLES
    meta_lines,         \* the lines of the document's metadata block
    title_reply,        \* what the remote service answers to a title request
    title_pc,           \* "document", "stripped", "translated" or "failed"
    yaml_content,       \* translate_qmd_file's yaml_content
    title_requests,     \* the texts sent to the service as titles
    title_value,        \* the translated title before quoting
    title_matched,      \* whether a title field was found
    translated_yaml     \* translate_qmd_file's translated_yaml

titleVars == <<meta_lines, title_reply, title_pc, yaml_content, title_requests,
               title_value, title_matched, translated_yaml>>

TitleIdle ==
    /\ meta_lines = <<>>
    /\ title_reply = [ok |-> FALSE, text |-> <<>>]
    /\ title_pc = "failed"
    /\ yaml_content = <<>>
    /\ title_requests = <<>>
    /\ title_value = <<>>
    /\ title_matched = FALSE
    /\ translated_yaml = <<>>

TitleInit ==
    /\ meta_lines \in UNION {[1..n -> MetaLines] : n \in 1..MaxMetaLines}
    /\ title_reply \in TitleReplies
    /\ title_pc = "document"
    /\ yaml_content = <<>>
    /\ title_requests = <<>>
    /\ title_value = <<>>
    /\ title_matched = FALSE
    /\ translated_yaml = <<>>

\* The document whose metadata block holds meta_lines, with a body
DocumentOf(lines) ==
    Dashes \o <<NL>> \o JoinLines(lines) \o <<NL>> \o Dashes \o <<NL>> \o <<"x">>

\* translate_qmd_file, lines 241 and 331-332: the front matter is split off
\* and its delimiters are stripped with strip('---\n').strip()
StripFrontmatter ==
    /\ title_pc = "document"
    /\ yaml_content' =
         Strip(StripSet(extract_yaml_frontmatter(DocumentOf(meta_lines)).frontmatter,
                        {Dash, NL}))
    /\ title_pc' = "stripped"
    /\ UNCHANGED <<meta_lines, title_reply, title_requests, title_value,
                   title_matched, translated_yaml>>

\* translate_qmd_file, lines 333-334: the title is translated and the block
\* put between its delimiters again; a failed request ends the file
TranslateFrontmatter ==
    /\ title_pc = "stripped"
    /\ LET r == translate_yaml_fields(yaml_content, title_reply)
       IN /\ title_requests' = r.requests
          /\ title_matched' = r.matched
          /\ title_value' = r.value
          /\ IF r.raised
             THEN /\ title_pc' = "failed"
                  /\ translated_yaml' = translated_yaml
             ELSE /\ title_pc' = "translated"
                  /\ translated_yaml' = Dashes \o <<NL>> \o r.content \o <<NL>>
                                          \o Dashes \o <<NL, NL>>
    /\ UNCHANGED <<meta_lines, title_reply, yaml_content>>

\* ------------------------------------------------------------------ main()
VARIABLES
    pc,                 \* "start", "loop" or "done": main's position
    input_files,        \* args.input_files: final path components, in order
    check_spelling,     \* args.check_spelling
    output_dir,         \* whether --output-dir was given
    no_credential,      \* no --api-key, AI_Model_API_KEY or OPENAI_API_KEY set
    api_key,            \* main's api_key once the arguments are read
    fs,                 \* the file system: what each path holds
    fs0,                \* the file system as it was when main started
    idx,                \* 1-based position of the for loop in input_files
    success_count,      \* main's success_count
    exit_code,          \* the status given to sys.exit, Running before it
    results,            \* per input, in order: "missing", "checked", "ok", "failed"
    log,                \* what main did to the outside world, in order
    last                \* the last call of translate_qmd_file: its output
                        \* path, what the path held before, what it wrote

mainVars == <<pc, input_files, check_spelling, output_dir, no_credential,
              api_key, fs, fs0, idx, success_count, exit_code, results, log, last>>

\* The variables of the pure functions' specifications, which main leaves
\* alone
pureVars == <<langVars, codeVars, yamlVars, titleVars>>

\* exit_code while main has not exited
Running == -1

\* last before the first call of translate_qmd_file
NoCall == [file |-> 0, out |-> <<"in", NameEn>>, before |-> "absent",
           full |-> "fullPlain", ret |-> TRUE]

\* Values of --api-key and of an environment variable: unset, empty, a key.
KeySources == {None, "", "key"}

\* Python's `a or b`: a when a is truthy, else b
Or(a, b) == IF a \in {None, ""} THEN b ELSE a

\* main, line 455
ResolveApiKey(arg, envNew, envOld) == Or(Or(arg, envNew), envOld)

\* A check that takes only the empty string for a missing key.
ApiKeyMissing_emptyOnly(k) == k = ""

\* main, line 456: `if not api_key`
ApiKeyMissing(k) == k \in {None, ""}

\* An exit status that asks for one success only.
ExitStatus_anySuccess(count, total) == IF count > 0 THEN 0 ELSE 1

\* main, line 500: the status given to sys.exit
ExitStatus(count, total) == IF count = total THEN 0 ELSE 1

\* main, lines 477-480: where the translation of input n goes
OutputPath(n) ==
    IF output_dir THEN <<"out", get_translation_pair(n)>>
                  ELSE <<"in", get_translation_pair(n)>>

InputPath(n) == <<"in", n>>

Event(op, i, ok) == [op |-> op, file |-> i, ok |-> ok]

\* Where translate_qmd_file can fail on an input holding c: at the read
\* (a file that is no UTF-8 text), at a remote request (the body, and the
\* title when there is one), at makedirs, at open(output_path, 'w'), or at
\* f.write after the open has truncated the file.
FailPoints(c) ==
    IF ~Readable(c) THEN {"read"}
    ELSE {"none", "body", "mkdir", "open", "write"}
         \cup (IF HasTitle(c) THEN {"title"} ELSE {})

\* The try block of translate_qmd_file on input number i: whether it ran to
\* its `return True`, what it did, and the file system it leaves.
translate_qmd_file_try(i, inP, outP, f, failAt) ==
    LET c == f[inP]
        read == <<Event("read", i, Readable(c))>>
        body == <<Event("req_body", i, failAt # "body")>>
        title == IF HasTitle(c) THEN <<Event("req_title", i, failAt # "title")>>
                                ELSE <<>>
        mkdir == <<Event("mkdir", i, failAt # "mkdir")>>
        open == <<Event("open_w", i, failAt # "open")>>
        write == <<Event("write", i, failAt # "write")>>
        failed(evs, g) == [ret |-> FALSE, log |-> evs, fs |-> g]
    IN CASE failAt = "read" -> failed(read, f)
         [] failAt = "body" -> failed(read \o body, f)
         [] failAt = "title" -> failed(read \o body \o title, f)
         [] failAt = "mkdir" -> failed(read \o body \o title \o mkdir, f)
         [] failAt = "open" -> failed(read \o body \o title \o mkdir \o open, f)
         [] failAt = "write" ->
              failed(read \o body \o title \o mkdir \o open \o write,
                     [f EXCEPT ![outP] = "truncated"])
         [] OTHER ->
              [ret |-> TRUE,
               log |-> read \o body \o title \o mkdir \o open \o write,
               fs |-> [f EXCEPT ![outP] = FullOf(c)]]

\* A translate_qmd_file without its except clause: a failure leaves it as
\* an exception.
translate_qmd_file_uncaught(i, inP, outP, f, failAt) ==
    LET t == translate_qmd_file_try(i, inP, outP, f, failAt)
    IN [ret |-> t.ret, raised |-> ~t.ret, log |-> t.log, fs |-> t.fs]

\* translate_qmd_file: the try block, and `except Exception: return False`.
\* No exception leaves it.
translate_qmd_file(i, inP, outP, f, failAt) ==
    LET t == translate_qmd_file_try(i, inP, outP, f, failAt)
    IN [ret |-> t.ret, raised |-> FALSE, log |-> t.log, fs |-> t.fs]

\* What the remote service can answer to a proofreading request.
SpellAnswers == {"error", "json_list", "json_other", "raw_text", "empty_list_text"}

\* A check_spelling that asks again after a failed request.
check_spelling_log_retry(i, c, answer) ==
    IF Readable(c)
    THEN IF answer = "error"
         THEN <<Event("read", i, TRUE), Event("req_spell", i, FALSE),
                Event("req_spell", i, FALSE)>>
         ELSE <<Event("read", i, TRUE), Event("req_spell", i, TRUE)>>
    ELSE <<Event("read", i, FALSE)>>

\* check_spelling on input number i: what it did.  It writes nothing.
check_spelling_log(i, c, answer) ==
    IF Readable(c)
    THEN <<Event("read", i, TRUE), Event("req_spell", i, answer # "error")>>
    ELSE <<Event("read", i, FALSE)>>

MainInit ==
    /\ pc = "start"
    /\ input_files \in UNION {[1..n -> InputNames] : n \in 1..MaxFiles}
    /\ check_spelling \in BOOLEAN
    /\ output_dir \in BOOLEAN
    /\ no_credential = FALSE
    /\ api_key = None
    /\ fs \in {f \in [Paths -> {"absent", "bad", "plain", "titled"}] :
                 \A p \in Paths : p[1] = "out" \/ p[2] \notin InputNames
                                    => f[p] = "absent"}
    /\ fs0 = fs
    /\ idx = 1
    /\ success_count = 0
    /\ exit_code = Running
    /\ results = <<>>
    /\ log = <<>>
    /\ last = NoCall

\* main, lines 452-467: read the arguments; without a key, exit at once.
ParseArgs ==
    /\ pc = "start"
    /\ \E arg \in KeySources, envNew \in KeySources, envOld \in KeySources :
         LET k == ResolveApiKey(arg, envNew, envOld)
         IN /\ api_key' = k
            /\ no_credential' = (arg = None /\ envNew = None /\ envOld = None)
            /\ IF ApiKeyMissing(k)
               THEN pc' = "done" /\ exit_code' = 1
               ELSE pc' = "loop" /\ exit_code' = exit_code
    /\ UNCHANGED <<input_files, check_spelling, output_dir, fs, fs0, idx,
                   success_count, results, log, last>>
    /\ UNCHANGED pureVars

\* main, lines 472-474: the input does not exist
SkipMissing ==
    /\ pc = "loop"
    /\ idx <= Len(input_files)
    /\ fs[InputPath(input_files[idx])] = "absent"
    /\ log' = Append(log, Event("exists", idx, FALSE))
    /\ results' = Append(results, "missing")
    /\ idx' = idx + 1
    /\ UNCHANGED <<pc, input_files, check_spelling, output_dir, no_credential,
                   api_key, fs, fs0, success_count, exit_code, last>>
    /\ UNCHANGED pureVars

\* main, lines 482-493: --check-spelling, then on to the next input
CheckSpellingFile ==
    /\ pc = "loop"
    /\ idx <= Len(input_files)
    /\ fs[InputPath(input_files[idx])] # "absent"
    /\ check_spelling
    /\ \E answer \in SpellAnswers :
         /\ Readable(fs[InputPath(input_files[idx])]) \/ answer = "error"
         /\ log' = Append(log, Event("exists", idx, TRUE))
                     \o check_spelling_log(idx, fs[InputPath(input_files[idx])], answer)
    /\ results' = Append(results, "checked")
    /\ idx' = idx + 1
    /\ UNCHANGED <<pc, input_files, check_spelling, output_dir, no_credential,
                   api_key, fs, fs0, success_count, exit_code, last>>
    /\ UNCHANGED pureVars

\* main, lines 495-497: translate the input and count a success.  An
\* exception leaving translate_qmd_file would end main with a traceback.
TranslateFile ==
    /\ pc = "loop"
    /\ idx <= Len(input_files)
    /\ fs[InputPath(input_files[idx])] # "absent"
    /\ ~check_spelling
    /\ \E failAt \in FailPoints(fs[InputPath(input_files[idx])]) :
         LET inP == InputPath(input_files[idx])
             outP == OutputPath(input_files[idx])
             r == translate_qmd_file(idx, inP, outP, fs, failAt)
         IN /\ log' = Append(log, Event("exists", idx, TRUE)) \o r.log
            /\ fs' = r.fs
            /\ last' = [file |-> idx, out |-> outP, before |-> fs[outP],
                        full |-> FullOf(fs[inP]), ret |-> r.ret]
            /\ IF r.raised
               THEN /\ pc' = "done"
                    /\ exit_code' = 1
                    /\ UNCHANGED <<idx, success_count, results>>
               ELSE /\ success_count' = IF r.ret THEN success_count + 1
                                                 ELSE success_count
                    /\ results' = Append(results, IF r.ret THEN "ok" ELSE "failed")
                    /\ idx' = idx + 1
                    /\ UNCHANGED <<pc, exit_code>>
    /\ UNCHANGED <<input_files, check_spelling, output_dir, no_credential,
                   api_key, fs0>>
    /\ UNCHANGED pureVars

\* main, lines 499-500: the loop is over
Finish ==
    /\ pc = "loop"
    /\ idx > Len(input_files)
    /\ pc' = "done"
    /\ exit_code' = ExitStatus(success_count, Len(input_files))
    /\ UNCHANGED <<input_files, check_spelling, output_dir, no_credential,
                   api_key, fs, fs0, idx, success_count, results, log, last>>
    /\ UNCHANGED pureVars

vars == <<mainVars, langVars, codeVars, yamlVars, titleVars>>

\* A run of main.
Init == MainInit /\ LangIdle /\ CodeIdle /\ YamlIdle /\ TitleIdle

Next ==
    \/ ParseArgs
    \/ SkipMissing
    \/ CheckSpellingFile
    \/ TranslateFile
    \/ Finish

Spec == Init /\ [][Next]_vars

MainIdle ==
    /\ pc = "done"
    /\ input_files = <<NameEn>>
    /\ check_spelling = FALSE
    /\ output_dir = FALSE
    /\ no_credential = FALSE
    /\ api_key = "key"
    /\ fs = [p \in Paths |-> "absent"]
    /\ fs0 = fs
    /\ idx = 1
    /\ success_count = 0
    /\ exit_code = Running
    /\ results = <<>>
    /\ log = <<>>
    /\ last = NoCall

\* The language resolver on every file name, body and --target-lang.
InitLang == LangInit /\ MainIdle /\ CodeIdle /\ YamlIdle /\ TitleIdle

ResolveFile == Resolve /\ UNCHANGED <<mainVars, codeVars, yamlVars, titleVars>>

NextLang == ResolveFile

SpecLang == InitLang /\ [][NextLang]_vars

\* The code-block extractor and restorer on every body.
InitCode == CodeInit /\ MainIdle /\ LangIdle /\ YamlIdle /\ TitleIdle

ExtractBody == ExtractCodeBlocks /\ UNCHANGED <<mainVars, langVars, yamlVars, titleVars>>

RestoreBody == RestoreCodeBlocks /\ UNCHANGED <<mainVars, langVars, yamlVars, titleVars>>

NextCode ==
    \/ ExtractBody
    \/ RestoreBody

SpecCode == InitCode /\ [][NextCode]_vars

\* The front-matter splitter on every document.
InitYaml == YamlInit /\ MainIdle /\ LangIdle /\ CodeIdle /\ TitleIdle

SplitDocument == ExtractFrontmatter /\ UNCHANGED <<mainVars, langVars, codeVars, titleVars>>

NextYaml == SplitDocument

SpecYaml == InitYaml /\ [][NextYaml]_vars

\* The front-matter translation on every metadata block and answer.
InitTitle == TitleInit /\ MainIdle /\ LangIdle /\ CodeIdle /\ YamlIdle

StripBlock == StripFrontmatter /\ UNCHANGED <<mainVars, langVars, codeVars, yamlVars>>

TranslateBlock ==
    TranslateFrontmatter /\ UNCHANGED <<mainVars, langVars, codeVars, yamlVars>>

NextTitle ==
    \/ StripBlock
    \/ TranslateBlock

SpecTitle == InitTitle /\ [][NextTitle]_vars

\* ------------------------------------------------- claims about main()
Requests == {"req_body", "req_title", "req_spell"}

\* The places of the log where `op` was done for input number i
Places(op, i) == {k \in 1..Len(log) : log[k].op = op /\ log[k].file = i}

\* Input number i was translated: its output was written in full
Translated(i) == \E k \in Places("write", i) : log[k].ok

HasKey == pc # "start" /\ api_key = "key"

\* C1: in translation mode main exits 0 exactly when every listed input was
\* translated successfully; a missing input or a failed translation gives a
\* nonzero status.
C1_ExitZeroIffAllTranslated ==
    (pc = "done" /\ HasKey /\ ~check_spelling)
        => /\ exit_code \in {0, 1}
           /\ exit_code = 0 <=> \A i \in 1..Len(input_files) : Translated(i)

C1_Witness ==
    /\ pc = "done" /\ HasKey /\ ~check_spelling
    /\ Len(input_files) = 2
    /\ exit_code = 1
    /\ Translated(1) /\ ~Translated(2)

\* C2: in translation mode a failure on one input (a missing file, a failed
\* body or title request) does not stop the batch: the inputs are attempted
\* one after the other in list order, all of them by the time main exits,
\* and after a failed request no further request is made for that input.
C2_FailureDoesNotStopBatch ==
    (HasKey /\ ~check_spelling)
        => /\ \A j, k \in 1..Len(log) : j < k => log[j].file <= log[k].file
           /\ \A i \in 1..Len(input_files) :
                Cardinality(Places("exists", i))
                    = (IF i < idx \/ pc = "done" THEN 1 ELSE 0)
           /\ \A k \in 1..Len(log) :
                (log[k].op \in Requests /\ ~log[k].ok)
                    => \A m \in (k + 1)..Len(log) :
                         ~(log[m].op \in Requests /\ log[m].file = log[k].file)

C2_Witness ==
    /\ pc = "done" /\ HasKey /\ ~check_spelling
    /\ Len(input_files) = 2
    /\ \E k \in Places("req_body", 1) : ~log[k].ok
    /\ Translated(2)

\* C3: when a step of translate_qmd_file fails, the output path is left as
\* it was or holds the complete reassembled content (and the call returns
\* False).
C3_NoPartialOutput ==
    (last.file > 0 /\ ~last.ret) => fs[last.out] \in {last.before, last.full}

\* C4: in spelling-check mode, when every input existed and was checked,
\* main exits with status 0.
C4_SpellingExitZero ==
    (/\ pc = "done" /\ HasKey /\ check_spelling
     /\ \A i \in 1..Len(input_files) : results[i] = "checked")
        => exit_code = 0

\* The inputs main has dealt with and found to exist
Existing == {i \in 1..Len(results) : results[i] # "missing"}

NeverTranslates ==
    /\ fs = fs0
    /\ \A k \in 1..Len(log) :
         log[k].op \notin {"req_body", "req_title", "mkdir", "open_w", "write"}

\* C5 as stated: in spelling-check mode nothing is written, nothing is
\* translated, and exactly one proofreading request is made for each
\* existing input.
C5_OneRequestPerExisting ==
    check_spelling
        => /\ NeverTranslates
           /\ \A i \in Existing : Cardinality(Places("req_spell", i)) = 1

\* C5, amended: in spelling-check mode nothing is written and nothing is
\* translated; for each existing input exactly one proofreading request is
\* made when the input could be read, and none when reading it failed.
C5_OneRequestPerReadable ==
    check_spelling
        => /\ NeverTranslates
           /\ \A i \in Existing :
                Cardinality(Places("req_spell", i))
                    = (IF \E k \in Places("read", i) : log[k].ok THEN 1 ELSE 0)

C5_Witness ==
    /\ pc = "done" /\ check_spelling /\ Len(input_files) = 2
    /\ Existing = {1, 2}
    /\ \E k \in Places("req_spell", 1) : ~log[k].ok
    /\ Places("req_spell", 2) = {}

\* C6: without any credential main exits with a nonzero status before it
\* looks at an input, sends a request or writes a file.
C6_NoCredentialExitsFirst ==
    no_credential
        => /\ pc = "done"
           /\ exit_code = 1
           /\ log = <<>>
           /\ fs = fs0
           /\ idx = 1

C6_Witness ==
    /\ no_credential
    /\ pc = "done"
    /\ \E n \in InputNames : fs[InputPath(n)] \in {"plain", "titled"}

\* ------------------------------------------ claims about the resolver
\* C7: without an explicit target language the resolved source and target
\* differ, for every input name, its translation pair as output name and
\* every body.
C7_PairNeverEqual ==
    (lang_out.done /\ lang_in.target_lang = None)
        => lang_out.source # lang_out.target

\* The language the content states: zh exactly when the CJK characters
\* outnumber 0.3 times the Latin letters.
ContentLang(body) ==
    LET c == Cardinality({i \in 1..Len(body) : body[i] = Cjk})
        e == Cardinality({i \in 1..Len(body) : body[i] = Latin})
    IN IF 10 * c > 3 * e THEN "zh" ELSE "en"

\* name.qmd with no dot in name
PlainQmd(n) ==
    /\ Len(n) > 4
    /\ SubSeq(n, Len(n) - 3, Len(n)) = <<".", "q", "m", "d">>
    /\ \A i \in 1..(Len(n) - 4) : n[i] # "."

\* <anything>.<two or three letters other than zh>.qmd
OtherSuffixQmd(n) ==
    \E k \in {2, 3} :
        /\ Len(n) >= k + 5
        /\ SubSeq(n, Len(n) - 3, Len(n)) = <<".", "q", "m", "d">>
        /\ n[Len(n) - 4 - k] = "."
        /\ \A i \in (Len(n) - 3 - k)..(Len(n) - 4) : n[i] \in Letters
        /\ SubSeq(n, Len(n) - 3 - k, Len(n) - 4) # <<"z", "h">>

ZhQmd(n) ==
    /\ Len(n) >= 7
    /\ SubSeq(n, Len(n) - 6, Len(n)) = <<".", "z", "h", ".", "q", "m", "d">>

\* C8: the file name decides the source language before the content does:
\* .zh.qmd gives zh and a plain name.qmd gives en whatever the body holds,
\* with the warning exactly when the content states the other language;
\* another two or three letter suffix before .qmd gives the language of
\* the content.
C8_FilenameOverContent ==
    lang_out.done
        => /\ ZhQmd(lang_in.name)
                => /\ lang_out.source = "zh"
                   /\ lang_out.warning <=> ContentLang(lang_in.body) # "zh"
           /\ PlainQmd(lang_in.name)
                => /\ lang_out.source = "en"
                   /\ lang_out.warning <=> ContentLang(lang_in.body) # "en"
           /\ OtherSuffixQmd(lang_in.name)
                => /\ lang_out.source = ContentLang(lang_in.body)
                   /\ ~lang_out.warning

C8_Witness ==
    /\ lang_out.done
    /\ OtherSuffixQmd(lang_in.name)
    /\ lang_in.body = <<Latin, Cjk, Latin, Latin>>
    /\ lang_out.source = "zh"

\* -------------------------- claims about the extractor and the splitter
\* C9: restore_code_blocks on the unaltered result of extract_code_blocks
\* gives back the body, also when the body or a code region holds the text
\* of a placeholder.
C9_ExtractRestoreIdentity ==
    code_pc = "restored" => code_out = code_in

\* C10: the front matter and the body extract_yaml_frontmatter returns,
\* one after the other, are the document; with no metadata block they are
\* the empty text and the document.
C10_SplitConcatIdentity ==
    yaml_done => yaml_part \o body_part = yaml_in

\* ---------------------------------- claims about the front-matter translation
\* The metadata block between the delimiters of translated_yaml, in lines
OutputLines == SplitLines(SubSeq(translated_yaml, 5, Len(translated_yaml) - 6))

IsTitleLine(l) == StartsWith(l, TitleColon)
NotTitleLine(l) == ~IsTitleLine(l)

\* The title line of the output: its first line that starts with title:
EmittedTitleLine == Head(SelectSeq(OutputLines, IsTitleLine))

\* A value that has to be quoted: it holds a character of the metadata
\* format (a quote character at its start counts as one), or white space
\* at either end
Significant(v) ==
    \/ \E i \in 1..Len(v) : v[i] \in YamlSpecialChars
    \/ v # <<>> /\ Head(v) \in {Quote, Apostrophe}
    \/ v # <<>> /\ (IsSpace(Head(v)) \/ IsSpace(v[Len(v)]))

\* v with a backslash before every double quote
RECURSIVE EscapeQuotes(_)
EscapeQuotes(v) ==
    IF v = <<>> THEN <<>>
    ELSE (IF Head(v) = Quote THEN <<Backslash, Quote>> ELSE <<Head(v)>>)
             \o EscapeQuotes(Tail(v))

\* C11: the title line of the output holds the translated title between
\* double quotes, every double quote in it escaped, when the title holds a
\* character of the metadata format or white space at either end, and holds
\* it as it is otherwise; also for a title that begins and ends with a
\* double quote.
C11_QuotedIffSignificant ==
    (title_pc = "translated" /\ title_matched)
        => EmittedTitleLine =
             TitleColon \o <<" ">>
                 \o (IF Significant(title_value)
                     THEN <<Quote>> \o EscapeQuotes(title_value) \o <<Quote>>
                     ELSE title_value)

\* C12: the lines of the output's metadata block other than title lines are
\* those of the input's, in the same order, also when the title's value is
\* empty or the first or last line begins or ends with "-"; with no title
\* line the block is unchanged and no title is sent to the service.
C12_OnlyTitleChanges ==
    title_pc = "translated"
        => /\ SelectSeq(OutputLines, NotTitleLine) = SelectSeq(meta_lines, NotTitleLine)
           /\ (\A i \in 1..Len(meta_lines) : NotTitleLine(meta_lines[i]))
                => /\ OutputLines = meta_lines
                   /\ title_requests = <<>>

====
